---- MODULE Spec2Model ----
(***************************************************************************)
(* Model of pyadmitad/transport.py: the HTTP executor (api_request), the   *)
(* OAuth2 authorization-code flow object (OAuthServerAuthorisation), the   *)
(* fluent request builder (HttpTransport), and the Announcements.get       *)
(* resource item of pyadmitad/items/announcements.py that drives it.       *)
(*                                                                         *)
(* Python values are modelled as follows.  None is the string NoneVal.     *)
(* A redirect URL is modelled by its query string, a function from the     *)
(* parameter names to the raw text of the parameter: Absent when the       *)
(* query string does not name the parameter, "" when it names it with an   *)
(* empty value (state=), the value otherwise.  Each parameter occurs at    *)
(* most once.  A JSON object is the set of its keys; a Python dict is a    *)
(* function on its keys.                                                   *)
(***************************************************************************)
EXTENDS Integers, Sequences, FiniteSets, TLC

VARIABLES
    client_id, client_secret, scopes, redirect_uri, language, \* OAuthServerAuthorisation
    state,          \* OAuthServerAuthorisation.state
    uuid_calls,     \* number of uuid.uuid4() values drawn so far
    redeemed,       \* history: the redirect URL that last passed the state check
                    \* of get_access_token since the latest get_authorize_url
    _headers, _method, _data, _url, _language,                \* HttpTransport
    init_args,      \* history: the arguments HttpTransport was constructed with
    last,           \* the most recent call: operation, arguments, outcome
    sent            \* the HTTP requests issued by the most recent call

oauth_vars == <<client_id, client_secret, scopes, redirect_uri, language, state, uuid_calls>>
transport_vars == <<_headers, _method, _data, _url, _language>>
vars == <<oauth_vars, redeemed, transport_vars, init_args, last, sent>>

----------------------------------------------------------------------------
(* Bounds *)

MaxTokens == 2      \* get_authorize_url calls per instance

----------------------------------------------------------------------------
(* Python values *)

NoneVal == "None"           \* Python None
Absent == "<absent>"        \* a key that a mapping or a query string does not have
NotSet == [unset |-> TRUE]   \* a keyword argument requests.request is not given
NoneDict == [None |-> TRUE]  \* Python None where a mapping is expected

Falsy(v) == v \in {NoneVal, ""}

\* A URL template is the sequence of its parts, Placeholder standing for
\* each %(language)s of it
Placeholder == "%(language)s"

DEFAULT_LANGUAGE == "ru"
TOKEN_URL == <<"https://api/token/", Placeholder, "/">>
AUTHORIZE_URL == <<"https://api/authorize/", Placeholder, "/">>

\* uuid.uuid4().get_hex(): the n-th value drawn, all distinct
uuid4_hex(n) ==
    CASE n = 1 -> "uuid-1" [] n = 2 -> "uuid-2" [] n = 3 -> "uuid-3"
      [] n = 4 -> "uuid-4" [] OTHER -> "uuid-5"

----------------------------------------------------------------------------
(* What the network does with one request *)

Statuses == {200, 404}
JsonBodies == {{"access_token", "expires_in"}, {"detail"}}

NoAnswer == [kind |-> "not asked", status |-> 0, json |-> FALSE, body |-> {}]

NetOutcomes ==
    {[kind |-> "refused", status |-> 0, json |-> FALSE, body |-> {}]}
    \cup {[kind |-> "response", status |-> s, json |-> TRUE, body |-> b] :
              s \in Statuses, b \in JsonBodies}
    \cup {[kind |-> "response", status |-> s, json |-> FALSE, body |-> {}] :
              s \in Statuses}

----------------------------------------------------------------------------
(* Module-level functions *)

prepare_request_data(data, headers, method) ==
    [timeout |-> "DEFAULT_REQUEST_TIMEOUT",
     data |-> IF method = "POST" THEN data ELSE NotSet,
     params |-> IF method = "GET" THEN data ELSE NotSet,
     headers |-> headers,
     allow_redirects |-> TRUE,
     verify |-> FALSE]

\* raise_for_status if only the 5xx statuses raised
raise_for_status_server_errors_only(status_code) ==
    status_code >= 500 /\ status_code < 600

\* response.raise_for_status(): 4xx and 5xx raise requests.HTTPError
raise_for_status(status_code) == status_code >= 400 /\ status_code < 600

\* The outcome of api_request when the network answers `net`: the requests it
\* issues, the exception it raises ("none": it returns `content`), and the
\* status code and content an HttpException carries.
ApiOutcome(requests, exc, status_code, content) ==
    [requests |-> requests, exc |-> exc, status_code |-> status_code,
     content |-> content]

TheRequest(url, data, headers, method) ==
    [method |-> method, url |-> url,
     kwargs |-> prepare_request_data(data, headers, method)]

\* api_request if it called raise_for_status before response.json()
api_request_status_first(url, data, headers, method, net) ==
    LET request == TheRequest(url, data, headers, method)
    IN  IF net.kind = "refused"
        THEN ApiOutcome(<<request>>, "ConnectionException", 500, {})
        ELSE IF raise_for_status(net.status)
        THEN ApiOutcome(<<request>>, "HttpException", net.status, {})
        ELSE IF ~net.json
        THEN ApiOutcome(<<request>>, "JsonException", net.status, {})
        ELSE ApiOutcome(<<request>>, "none", net.status, net.body)

\* api_request if it took a failure to connect for an HTTP error
api_request_refused_as_http(url, data, headers, method, net) ==
    LET request == TheRequest(url, data, headers, method)
    IN  IF net.kind = "refused"
        THEN ApiOutcome(<<request>>, "HttpException", 500, {})
        ELSE IF ~net.json
        THEN ApiOutcome(<<request>>, "JsonException", net.status, {})
        ELSE IF raise_for_status(net.status)
        THEN ApiOutcome(<<request>>, "HttpException", net.status, net.body)
        ELSE ApiOutcome(<<request>>, "none", net.status, net.body)

\* api_request if it tried once more after a failure to connect
api_request_retrying(url, data, headers, method, net) ==
    LET request == TheRequest(url, data, headers, method)
    IN  IF net.kind = "refused"
        THEN ApiOutcome(<<request, request>>, "ConnectionException", 500, {})
        ELSE IF ~net.json
        THEN ApiOutcome(<<request>>, "JsonException", net.status, {})
        ELSE IF raise_for_status(net.status)
        THEN ApiOutcome(<<request>>, "HttpException", net.status, net.body)
        ELSE ApiOutcome(<<request>>, "none", net.status, net.body)

\* requests.request raises a RequestException when no response is obtained;
\* response.json() raises JSONDecodeError before raise_for_status is reached
api_request(url, data, headers, method, net) ==
    LET request == TheRequest(url, data, headers, method)
    IN  IF net.kind = "refused"
        THEN ApiOutcome(<<request>>, "ConnectionException", 500, {})
        ELSE IF ~net.json
        THEN ApiOutcome(<<request>>, "JsonException", net.status, {})
        ELSE IF raise_for_status(net.status)
        THEN ApiOutcome(<<request>>, "HttpException", net.status, net.body)
        ELSE ApiOutcome(<<request>>, "none", net.status, net.body)

api_post_request(url, data, headers, net) == api_request(url, data, headers, "POST", net)

api_get_request(url, data, headers, net) == api_request(url, data, headers, "GET", net)

\* d.get(k) on a Python dict
dict_get(d, k) == IF k \in DOMAIN d THEN d[k] ELSE NoneVal

\* d[k] = v on a Python dict
dict_set(d, k, v) == [x \in DOMAIN d \cup {k} |-> IF x = k THEN v ELSE d[x]]

build_authorization_headers(access_token) ==
    [Authorization |-> "Bearer " \o access_token]

build_headers(access_token, user_agent) ==
    LET headers == dict_set(build_authorization_headers(access_token),
                            "Connection", "Keep-Alive")
    IN  IF ~Falsy(user_agent) THEN dict_set(headers, "User-Agent", user_agent)
        ELSE headers

\* url % {'language': value}
RECURSIVE format(_, _)
format(url, value) ==
    IF url = <<>> THEN ""
    ELSE (IF Head(url) = Placeholder THEN value ELSE Head(url))
             \o format(Tail(url), value)

\* url % {'language': language or DEFAULT_LANGUAGE}
prepare_api_url(url, lang) ==
    format(url, IF Falsy(lang) THEN DEFAULT_LANGUAGE ELSE lang)

----------------------------------------------------------------------------
(* OAuth2 grant functions: the exception raised ("none": `content` is
   returned), the missing key a KeyError names, and the requests issued *)

\* b64encode, kept apart from its argument
b64encode(text) == "base64(" \o text \o ")"

GrantOutcome(exc, key, response) ==
    [exc |-> exc, key |-> key, requests |-> response.requests,
     status_code |-> response.status_code, content |-> response.content]

NoResponse == ApiOutcome(<<>>, "none", 0, {})

\* data[key] for each key in turn: the first key that data does not have
RECURSIVE first_missing(_, _)
first_missing(data, keys) ==
    IF keys = <<>> THEN NoneVal
    ELSE IF Head(keys) \notin DOMAIN data THEN Head(keys)
    ELSE first_missing(data, Tail(keys))

basic_headers(data) ==
    [k \in {"Content-Type", "Authorization"} |->
        IF k = "Content-Type" THEN "application/x-www-form-urlencoded"
        ELSE "Basic " \o b64encode(data.client_id \o ":" \o data.client_secret)]

grant_language(data) ==
    IF "language" \in DOMAIN data THEN data.language ELSE DEFAULT_LANGUAGE

\* oauth_password_authorization if it read the scopes with data.get('scopes')
oauth_password_authorization_optional_scopes(data, net) ==
    LET missing == first_missing(data, <<"client_id", "client_secret",
                                         "username", "password">>)
        params == [grant_type |-> "password",
                   client_id |-> data.client_id,
                   username |-> data.username,
                   password |-> data.password,
                   scope |-> dict_get(data, "scopes")]
    IN  IF missing # NoneVal THEN GrantOutcome("KeyError", missing, NoResponse)
        ELSE LET response == api_post_request(
                     prepare_api_url(TOKEN_URL, grant_language(data)),
                     params, basic_headers(data), net)
             IN  GrantOutcome(response.exc, NoneVal, response)

oauth_password_authorization(data, net) ==
    LET missing == first_missing(data, <<"client_id", "client_secret",
                                         "username", "password", "scopes">>)
        params == [grant_type |-> "password",
                   client_id |-> data.client_id,
                   username |-> data.username,
                   password |-> data.password,
                   scope |-> data.scopes]
    IN  IF missing # NoneVal THEN GrantOutcome("KeyError", missing, NoResponse)
        ELSE LET response == api_post_request(
                     prepare_api_url(TOKEN_URL, grant_language(data)),
                     params, basic_headers(data), net)
             IN  GrantOutcome(response.exc, NoneVal, response)

oauth_client_authorization(data, net) ==
    LET missing == first_missing(data, <<"client_id", "client_secret", "scopes">>)
        params == [grant_type |-> "client_credentials",
                   client_id |-> data.client_id,
                   scope |-> data.scopes]
    IN  IF missing # NoneVal THEN GrantOutcome("KeyError", missing, NoResponse)
        ELSE LET response == api_post_request(
                     prepare_api_url(TOKEN_URL, grant_language(data)),
                     params, basic_headers(data), net)
             IN  GrantOutcome(response.exc, NoneVal, response)

----------------------------------------------------------------------------
(* The record of a call *)

Outcome(op, arg, exc, msg, ret) ==
    [op |-> op, arg |-> arg, exc |-> exc, msg |-> msg, ret |-> ret]

----------------------------------------------------------------------------
(* OAuthServerAuthorisation *)

ParamNames == {"state", "error", "code"}

StateValues == {Absent, "", "forged"} \cup {uuid4_hex(n) : n \in 1..MaxTokens}
ErrorValues == {Absent, "", "access_denied"}
CodeValues == {Absent, "", "code-1"}

RedirectUrls ==
    {[p \in ParamNames |->
        CASE p = "state" -> s [] p = "error" -> e [] OTHER -> c] :
     s \in StateValues, e \in ErrorValues, c \in CodeValues}

\* parse_qsl if it kept the parameters whose value is blank
parse_qsl_keep_blank_values(url) ==
    [p \in {k \in ParamNames : url[k] # Absent} |-> url[p]]

\* dict(urlparse.parse_qsl(urlparse.urlparse(url).query)): parse_qsl drops the
\* parameters whose value is blank (keep_blank_values is off)
parse_qsl(url) ==
    [p \in {k \in ParamNames : url[k] # Absent /\ url[k] # ""} |-> url[p]]

\* no redirect URL: the value of `redeemed` before any URL passed the check
NoUrl == [p \in ParamNames |-> "<no url>"]

OAuthInit ==
    /\ client_id = "client"
    /\ client_secret = "secret"
    /\ scopes = "announcements"
    /\ redirect_uri \in {NoneVal, "https://app/cb"}
    /\ language \in {DEFAULT_LANGUAGE, "de"}
    /\ state = NoneVal
    /\ uuid_calls = 0

get_authorize_url_result(new_state) ==
    [base |-> prepare_api_url(AUTHORIZE_URL, language),
     query |-> [client_id |-> client_id, response_type |-> "code",
                state |-> new_state, scope |-> scopes,
                redirect_uri |-> redirect_uri]]

\* get_authorize_url if it kept the state of the first call
get_authorize_url_keeps_first_state ==
    /\ uuid_calls < MaxTokens
    /\ uuid_calls' = uuid_calls + 1
    /\ state' = IF state = NoneVal THEN uuid4_hex(uuid_calls + 1) ELSE state
    /\ last' = Outcome("get_authorize_url", NoneVal, "none", "",
                       get_authorize_url_result(state'))
    /\ sent' = <<>>
    /\ redeemed' = NoUrl
    /\ UNCHANGED <<client_id, client_secret, scopes, redirect_uri, language>>
    /\ UNCHANGED <<transport_vars, init_args>>

get_authorize_url ==
    /\ uuid_calls < MaxTokens
    /\ uuid_calls' = uuid_calls + 1
    /\ state' = uuid4_hex(uuid_calls + 1)
    /\ last' = Outcome("get_authorize_url", NoneVal, "none", "",
                       get_authorize_url_result(state'))
    /\ sent' = <<>>
    /\ redeemed' = NoUrl
    /\ UNCHANGED <<client_id, client_secret, scopes, redirect_uri, language>>
    /\ UNCHANGED <<transport_vars, init_args>>

\* state = url_params.get('state'); not state or state != self.state
wrong_state_presence_only(url_params) == Falsy(dict_get(url_params, "state"))

\* the state check without `not state`
wrong_state_compare_only(url_params) == dict_get(url_params, "state") # state

wrong_state(url_params) ==
    LET url_state == dict_get(url_params, "state")
    IN  Falsy(url_state) \/ url_state # state

\* 'error' in url_params
error_ignored(url_params) == FALSE

has_error(url_params) == "error" \in DOMAIN url_params

\* 'code' not in url_params
no_code(url_params) == "code" \notin DOMAIN url_params

\* 'access_token' not in response
access_token_unchecked(response) == FALSE

no_access_token(response) == "access_token" \notin response

\* get_access_token on a redirect URL, the token endpoint answering `net` if
\* it is asked: the requests sent, the exception raised ("none": `ret` is
\* returned) and its message
get_access_token_result(url, net) ==
    LET url_params == parse_qsl(url)
        params == [grant_type |-> "authorization_code",
                   client_id |-> client_id,
                   client_secret |-> client_secret,
                   code |-> dict_get(url_params, "code"),
                   redirect_uri |-> redirect_uri]
        headers == [x \in {"Content-Type"} |-> "application/x-www-form-urlencoded"]
        response == api_post_request(prepare_api_url(TOKEN_URL, language),
                                     params, headers, net)
        raise(exc, msg, requests) ==
            [sent |-> requests, exc |-> exc, msg |-> msg, ret |-> {}]
    IN  IF wrong_state(url_params)
        THEN raise("ApiException", "Wrong or absent the state parameter.", <<>>)
        ELSE IF has_error(url_params)
        THEN raise("ApiException", url_params["error"], <<>>)
        ELSE IF no_code(url_params)
        THEN raise("ApiException",
                   "Invalid response. The authorization code is absent.", <<>>)
        ELSE IF response.exc # "none"
        THEN raise(response.exc, "", response.requests)
        ELSE IF no_access_token(response.content)
        THEN raise("ApiException",
                   "Invalid response. The access_token is absent.",
                   response.requests)
        ELSE [sent |-> response.requests, exc |-> "none", msg |-> "",
              ret |-> response.content]

\* get_access_token if it cleared the stored state once the state check passed
get_access_token_invalidating(url, net) ==
    LET r == get_access_token_result(url, net)
    IN  /\ last' = Outcome("get_access_token",
                           [url |-> url, net |-> net, replay |-> url = redeemed],
                           r.exc, r.msg, r.ret)
        /\ sent' = r.sent
        /\ redeemed' = IF wrong_state(parse_qsl(url)) THEN redeemed ELSE url
        /\ state' = IF wrong_state(parse_qsl(url)) THEN state ELSE NoneVal
        /\ UNCHANGED <<client_id, client_secret, scopes, redirect_uri, language,
                       uuid_calls>>
        /\ UNCHANGED <<transport_vars, init_args>>

\* The token endpoint is asked only by a call that reaches api_post_request
Answers(url) ==
    IF get_access_token_result(url, NoAnswer).sent = <<>> THEN {NoAnswer}
    ELSE NetOutcomes

\* arg.replay records that this very URL had already passed the state check
\* since the latest get_authorize_url
get_access_token(url, net) ==
    LET r == get_access_token_result(url, net)
    IN  /\ last' = Outcome("get_access_token",
                           [url |-> url, net |-> net, replay |-> url = redeemed],
                           r.exc, r.msg, r.ret)
        /\ sent' = r.sent
        /\ redeemed' = IF wrong_state(parse_qsl(url)) THEN redeemed ELSE url
        /\ UNCHANGED oauth_vars
        /\ UNCHANGED <<transport_vars, init_args>>

----------------------------------------------------------------------------
(* HttpTransport *)

supported_methods == {"GET", "POST"}
supported_languages == {"ru", "en", "de", "pl"}

NoArgs == [access_token |-> NoneVal, method |-> NoneVal, user_agent |-> NoneVal]

\* no HttpTransport is in use
TransportIdle ==
    /\ _headers = <<>>
    /\ _method = NoneVal
    /\ _data = NoneDict
    /\ _url = NoneVal
    /\ _language = NoneVal
    /\ init_args = NoArgs

OAuthSpecInit ==
    /\ OAuthInit
    /\ redeemed = NoUrl
    /\ TransportIdle
    /\ last = Outcome("__init__", NoneVal, "none", "", NoneVal)
    /\ sent = <<>>

OAuthNext ==
    \/ get_authorize_url
    \/ \E url \in RedirectUrls : \E net \in Answers(url) : get_access_token(url, net)

SpecOAuth == OAuthSpecInit /\ [][OAuthNext]_vars

----------------------------------------------------------------------------
(* HttpTransport as functions of the instance: each gives the instance after
   the call, the exception raised ("none": `ret` is returned) and the
   requests issued *)

Return(self, ret, requests) ==
    [self |-> self, exc |-> "none", msg |-> "", ret |-> ret, sent |-> requests]

Raise(self, exc, msg, requests) ==
    [self |-> self, exc |-> exc, msg |-> msg, ret |-> NoneVal, sent |-> requests]

__init__(access_token, method, user_agent) ==
    [_headers |-> build_headers(access_token, user_agent),
     _method |-> IF Falsy(method) THEN "GET" ELSE method,
     _data |-> NoneDict,
     _url |-> NoneVal,
     _language |-> NoneVal]

\* set_language if it stored the language before validating it
set_language_store_first(self, lang) ==
    IF lang \in supported_languages
    THEN Return([self EXCEPT !._language = lang], "self", <<>>)
    ELSE Raise([self EXCEPT !._language = lang], "AttributeError",
               "This language is not supported", <<>>)

\* set_language if it also put the language into the headers
set_language_as_header(self, lang) ==
    IF lang \in supported_languages
    THEN Return([self EXCEPT !._language = lang,
                             !._headers = dict_set(self._headers,
                                                   "Accept-Language", lang)],
                "self", <<>>)
    ELSE Raise(self, "AttributeError", "This language is not supported", <<>>)

set_language(self, lang) ==
    IF lang \in supported_languages
    THEN Return([self EXCEPT !._language = lang], "self", <<>>)
    ELSE Raise(self, "AttributeError", "This language is not supported", <<>>)

\* set_url if it stored the URL before setting the language
set_url_store_first(self, url, lang) ==
    LET self1 == [self EXCEPT !._url = prepare_api_url(url, lang)]
    IN  IF ~Falsy(lang) THEN set_language(self1, lang)
        ELSE Return(self1, "self", <<>>)

set_url(self, url, lang) ==
    LET r == IF ~Falsy(lang) THEN set_language(self, lang)
             ELSE Return(self, "self", <<>>)
    IN  IF r.exc # "none" THEN r
        ELSE Return([r.self EXCEPT !._url = prepare_api_url(url, lang)], "self", <<>>)

set_data(self, data) == Return([self EXCEPT !._data = data], "self", <<>>)

\* set_method if it stored the method before validating it
set_method_store_first(self, method) ==
    IF method \in supported_methods
    THEN Return([self EXCEPT !._method = method], "self", <<>>)
    ELSE Raise([self EXCEPT !._method = method], "AttributeError",
               "This http method is not supported", <<>>)

set_method(self, method) ==
    IF method \in supported_methods
    THEN Return([self EXCEPT !._method = method], "self", <<>>)
    ELSE Raise(self, "AttributeError", "This http method is not supported", <<>>)

_handle_response(self, response) == response

\* kwargs['handler'](response), for the handler the caller passes
apply_handler(handler, response) == [handler |-> handler, response |-> response]

\* looked up for the names that are not attributes of the instance
__getattr__(self, name) == set_method(self, name)

\* not self._url
url_check_skipped(self) == FALSE

absent_url(self) == Falsy(self._url)

__call__(self, kwargs, net) ==
    LET r1 == IF "language" \in DOMAIN kwargs
              THEN set_language(self, kwargs.language)
              ELSE Return(self, "self", <<>>)
        self1 == r1.self
        r2 == IF "url" \in DOMAIN kwargs
              THEN set_url(self1, kwargs.url, self1._language)
              ELSE Return(self1, "self", <<>>)
        self2 == r2.self
        response == api_request(self2._url, self2._data, self2._headers,
                                self2._method, net)
    IN  IF r1.exc # "none" THEN r1
        ELSE IF r2.exc # "none" THEN r2
        ELSE IF absent_url(self2)
        THEN Raise(self2, "AttributeError",
                   "Absent url parameter. Use set_url method", <<>>)
        ELSE IF response.exc # "none"
        THEN [Raise(self2, response.exc, "", response.requests)
                 EXCEPT !.ret = IF response.exc = "HttpException"
                                THEN [status_code |-> response.status_code,
                                      content |-> response.content]
                                ELSE NoneVal]
        ELSE IF "handler" \in DOMAIN kwargs
        THEN Return(self2, apply_handler(kwargs.handler, response.content),
                    response.requests)
        ELSE Return(self2, _handle_response(self2, response.content),
                    response.requests)

----------------------------------------------------------------------------
(* Announcements *)

Announcements_URL == <<"https://api/", Placeholder, "/announcements/">>

\* self.transport.set_method('GET').set_pagination(**kwargs).request(**kwargs):
\* HttpTransport has no set_pagination attribute, so the lookup goes to
\* __getattr__; were it to return the builder, the builder would be called
\* with kwargs
Announcements_get(self, kwargs, net) ==
    LET args == [k \in DOMAIN kwargs \cup {"url"} |->
                    IF k = "url" THEN Announcements_URL ELSE kwargs[k]]
        r1 == set_method(self, "GET")
        r2 == __getattr__(r1.self, "set_pagination")
    IN  IF r1.exc # "none" THEN r1
        ELSE IF r2.exc # "none" THEN r2
        ELSE __call__(r2.self, args, net)

----------------------------------------------------------------------------
(* The calls made on one HttpTransport *)

AccessTokens == {"token-1"}
UserAgents == {NoneVal, "agent/1"}
InitMethods == {NoneVal, "POST", "DELETE"}
MethodValues == {"GET", "POST", "DELETE"}
AttributeNames == {"GET", "POST", "set_pagination", "request"}
LanguageValues == {"", "de", "fr"}
UrlValues == {<<>>, Announcements_URL}
DataValues == {NoneDict, [q |-> "x"]}

Pagination == [limit |-> 1, offset |-> 2]

Kwargs ==
    {l @@ u @@ h @@ p :
        l \in {<<>>} \cup {[language |-> v] : v \in LanguageValues},
        u \in {<<>>} \cup {[url |-> v] : v \in UrlValues},
        h \in {<<>>, [handler |-> "unwrap"]},
        p \in {<<>>, Pagination}}

\* what the network may do with a request of the builder
TransportAnswers == {n \in NetOutcomes : "access_token" \notin n.body}

Self ==
    [_headers |-> _headers, _method |-> _method, _data |-> _data,
     _url |-> _url, _language |-> _language]

\* the instance, the record of the call and the requests after a call
Called(op, arg, r) ==
    /\ _headers' = r.self._headers
    /\ _method' = r.self._method
    /\ _data' = r.self._data
    /\ _url' = r.self._url
    /\ _language' = r.self._language
    /\ last' = Outcome(op, arg, r.exc, r.msg, r.ret)
    /\ sent' = r.sent
    /\ UNCHANGED <<oauth_vars, redeemed, init_args>>

TransportInit ==
    /\ \E access_token \in AccessTokens, method \in InitMethods,
          user_agent \in UserAgents :
          /\ init_args = [access_token |-> access_token, method |-> method,
                          user_agent |-> user_agent]
          /\ LET self == __init__(access_token, method, user_agent)
             IN  /\ _headers = self._headers
                 /\ _method = self._method
                 /\ _data = self._data
                 /\ _url = self._url
                 /\ _language = self._language
    /\ last = Outcome("__init__", NoneVal, "none", "", NoneVal)
    /\ sent = <<>>
    /\ client_id = NoneVal /\ client_secret = NoneVal /\ scopes = NoneVal
    /\ redirect_uri = NoneVal /\ language = NoneVal /\ state = NoneVal
    /\ uuid_calls = 0 /\ redeemed = NoUrl

call_set_url(url, lang) ==
    Called("set_url", [url |-> url, language |-> lang], set_url(Self, url, lang))

call_set_language(lang) ==
    Called("set_language", [language |-> lang], set_language(Self, lang))

call_set_data(data) ==
    Called("set_data", [data |-> data], set_data(Self, data))

call_set_method(method) ==
    Called("set_method", [method |-> method], set_method(Self, method))

call_getattr(name) ==
    Called("__getattr__", [name |-> name], __getattr__(Self, name))

\* the network is asked only by a call that reaches api_request
CallAnswers(kwargs) ==
    IF __call__(Self, kwargs, NoAnswer).sent = <<>> THEN {NoAnswer}
    ELSE TransportAnswers

call(kwargs, net) ==
    Called("__call__", [kwargs |-> kwargs, net |-> net], __call__(Self, kwargs, net))

GetAnswers(kwargs) ==
    IF Announcements_get(Self, kwargs, NoAnswer).sent = <<>> THEN {NoAnswer}
    ELSE TransportAnswers

call_Announcements_get(kwargs, net) ==
    Called("Announcements.get", [kwargs |-> kwargs, net |-> net],
           Announcements_get(Self, kwargs, net))

TransportNext ==
    \/ \E url \in UrlValues, lang \in LanguageValues \cup {NoneVal} :
           call_set_url(url, lang)
    \/ \E lang \in LanguageValues \cup {NoneVal} : call_set_language(lang)
    \/ \E data \in DataValues : call_set_data(data)
    \/ \E method \in MethodValues : call_set_method(method)
    \/ \E name \in AttributeNames : call_getattr(name)
    \/ \E kwargs \in Kwargs : \E net \in CallAnswers(kwargs) : call(kwargs, net)
    \/ \E kwargs \in {<<>>, Pagination} : \E net \in GetAnswers(kwargs) :
           call_Announcements_get(kwargs, net)

SpecTransport == TransportInit /\ [][TransportNext]_vars

----------------------------------------------------------------------------
(* The calls of the module-level functions *)

ExecutorStatuses == {200, 300, 404, 500}

\* what the network may do with a request of the executor
ExecutorAnswers ==
    {[kind |-> "refused", status |-> 0, json |-> FALSE, body |-> {}]}
    \cup {[kind |-> "response", status |-> s, json |-> TRUE, body |-> b] :
              s \in ExecutorStatuses, b \in JsonBodies \cup {{}}}
    \cup {[kind |-> "response", status |-> s, json |-> FALSE, body |-> {}] :
              s \in ExecutorStatuses}

GrantKeys ==
    {"client_id", "client_secret", "username", "password", "scopes", "language"}

GrantValue(k) ==
    CASE k = "client_id" -> "client" [] k = "client_secret" -> "secret"
      [] k = "username" -> "user" [] k = "password" -> "pass"
      [] k = "scopes" -> "announcements" [] OTHER -> "de"

\* the dicts handed to the grant functions, with any of the keys missing
GrantData == {[k \in keys |-> GrantValue(k)] : keys \in SUBSET GrantKeys}

ExecutorInit ==
    /\ TransportIdle
    /\ last = Outcome("import", NoneVal, "none", "", NoneVal)
    /\ sent = <<>>
    /\ client_id = NoneVal /\ client_secret = NoneVal /\ scopes = NoneVal
    /\ redirect_uri = NoneVal /\ language = NoneVal /\ state = NoneVal
    /\ uuid_calls = 0 /\ redeemed = NoUrl

\* the record of a call of the executor: an HttpException carries the status
\* code and the content, a return gives the content
ExecutorCalled(op, arg, r) ==
    Outcome(op, arg, r.exc, "",
            [status_code |-> r.status_code, content |-> r.content])

ExecutorUnchanged == UNCHANGED <<oauth_vars, redeemed, transport_vars, init_args>>

call_api_request(url, data, headers, method, net) ==
    /\ last' = ExecutorCalled(
                   "api_request",
                   [url |-> url, data |-> data, method |-> method, net |-> net],
                   api_request(url, data, headers, method, net))
    /\ sent' = api_request(url, data, headers, method, net).requests
    /\ ExecutorUnchanged

call_api_post_request(url, data, headers, net) ==
    /\ last' = ExecutorCalled(
                   "api_post_request",
                   [url |-> url, data |-> data, method |-> "POST", net |-> net],
                   api_post_request(url, data, headers, net))
    /\ sent' = api_post_request(url, data, headers, net).requests
    /\ ExecutorUnchanged

call_api_get_request(url, data, headers, net) ==
    /\ last' = ExecutorCalled(
                   "api_get_request",
                   [url |-> url, data |-> data, method |-> "GET", net |-> net],
                   api_get_request(url, data, headers, net))
    /\ sent' = api_get_request(url, data, headers, net).requests
    /\ ExecutorUnchanged

\* the record of a call of a grant function: msg is the key of a KeyError
GrantCalled(op, data, net, r) ==
    Outcome(op, [data |-> data, net |-> net], r.exc, r.key,
            [status_code |-> r.status_code, content |-> r.content])

\* the network is asked only by a call that reaches api_post_request
PasswordAnswers(data) ==
    IF oauth_password_authorization(data, NoAnswer).requests = <<>>
    THEN {NoAnswer} ELSE ExecutorAnswers

ClientAnswers(data) ==
    IF oauth_client_authorization(data, NoAnswer).requests = <<>>
    THEN {NoAnswer} ELSE ExecutorAnswers

call_oauth_password_authorization(data, net) ==
    /\ last' = GrantCalled("oauth_password_authorization", data, net,
                           oauth_password_authorization(data, net))
    /\ sent' = oauth_password_authorization(data, net).requests
    /\ ExecutorUnchanged

call_oauth_client_authorization(data, net) ==
    /\ last' = GrantCalled("oauth_client_authorization", data, net,
                           oauth_client_authorization(data, net))
    /\ sent' = oauth_client_authorization(data, net).requests
    /\ ExecutorUnchanged

ExecutorNext ==
    \/ \E url \in {prepare_api_url(Announcements_URL, NoneVal)},
          data \in DataValues, headers \in {<<>>, build_headers("token-1", NoneVal)},
          method \in MethodValues, net \in ExecutorAnswers :
           call_api_request(url, data, headers, method, net)
    \/ \E data \in DataValues, net \in ExecutorAnswers :
           call_api_post_request(prepare_api_url(TOKEN_URL, NoneVal), data, <<>>, net)
    \/ \E data \in DataValues, net \in ExecutorAnswers :
           call_api_get_request(prepare_api_url(Announcements_URL, NoneVal),
                                data, <<>>, net)
    \/ \E data \in GrantData : \E net \in PasswordAnswers(data) :
           call_oauth_password_authorization(data, net)
    \/ \E data \in GrantData : \E net \in ClientAnswers(data) :
           call_oauth_client_authorization(data, net)

SpecExecutor == ExecutorInit /\ [][ExecutorNext]_vars

----------------------------------------------------------------------------
(* The three parts of the module together: a run uses one
   OAuthServerAuthorisation instance, or one HttpTransport instance (with
   Announcements on top of it), or the module-level functions *)

ProgramInit == OAuthSpecInit \/ TransportInit \/ ExecutorInit

ProgramNext ==
    \/ client_id # NoneVal /\ OAuthNext
    \/ init_args # NoArgs /\ TransportNext
    \/ client_id = NoneVal /\ init_args = NoArgs /\ ExecutorNext

SpecProgram == ProgramInit /\ [][ProgramNext]_vars

----------------------------------------------------------------------------
(* Properties of the authorization-code flow *)

WrongStateMessage == "Wrong or absent the state parameter."

AccessTokenCalled == last.op = "get_access_token"

\* the redirect URL names parameter p with a value that is not empty
Carries(url, p) == url[p] # Absent /\ url[p] # ""

\* the request is one POST of an authorization_code grant to the token endpoint
IsTokenRequest(request, url) ==
    /\ request.method = "POST"
    /\ request.url = prepare_api_url(TOKEN_URL, language)
    /\ request.kwargs.data.grant_type = "authorization_code"
    /\ request.kwargs.data.code = url["code"]

\* C1: a redirect URL whose state parameter is missing, empty or different
\* from the stored state makes get_access_token fail with ApiException, and
\* no request is sent.
C1_WrongStateRejected ==
    AccessTokenCalled =>
        LET url == last.arg.url
        IN  (url["state"] = Absent \/ url["state"] = "" \/ url["state"] # state)
                => last.exc = "ApiException" /\ sent = <<>>

\* a forged state, with a code, after get_authorize_url stored a state
C1_Witness ==
    /\ AccessTokenCalled
    /\ state # NoneVal
    /\ last.arg.url["state"] = "forged"
    /\ last.arg.url["code"] = "code-1"
    /\ last.arg.url["error"] = Absent
    /\ last.exc = "ApiException"
    /\ sent = <<>>

\* C2 as stated: every redirect URL that has an error parameter makes
\* get_access_token fail with ApiException carrying the error value, and no
\* token request is sent.
C2_AnyErrorUrlCarriesError ==
    AccessTokenCalled =>
        LET url == last.arg.url
        IN  url["error"] # Absent
                => /\ last.exc = "ApiException"
                   /\ last.msg = url["error"]
                   /\ sent = <<>>

\* C2 amended: a redirect URL with a non-empty error parameter makes
\* get_access_token fail with ApiException and no token request is sent,
\* with or without a code parameter; the exception carries the error value
\* when the URL's state equals the stored state, and the state message
\* otherwise.
C2_ErrorRejected ==
    AccessTokenCalled =>
        LET url == last.arg.url
        IN  Carries(url, "error")
                => /\ last.exc = "ApiException"
                   /\ sent = <<>>
                   /\ last.msg = IF url["state"] = state THEN url["error"]
                                 ELSE WrongStateMessage

\* the provider's error with the right state and a code
C2_Witness ==
    /\ AccessTokenCalled
    /\ last.arg.url["state"] = state
    /\ last.arg.url["error"] = "access_denied"
    /\ last.arg.url["code"] = "code-1"
    /\ last.exc = "ApiException"
    /\ last.msg = "access_denied"
    /\ sent = <<>>

\* C3 as stated: get_access_token sends the token request (one POST of an
\* authorization_code grant) if and only if the URL's state equals the stored
\* state, the URL has no error parameter and it has a code parameter; with a
\* matching state and no code it fails with ApiException and sends nothing.
C3_SendsIffParametersPresent ==
    AccessTokenCalled =>
        LET url == last.arg.url
            accepted == /\ url["state"] = state
                        /\ url["error"] = Absent
                        /\ url["code"] # Absent
        IN  /\ accepted => Len(sent) = 1 /\ IsTokenRequest(sent[1], url)
            /\ ~accepted => sent = <<>>
            /\ (url["state"] = state /\ url["code"] = Absent)
                   => last.exc = "ApiException" /\ sent = <<>>

\* C3 amended: a parameter whose value is empty counts as absent:
\* get_access_token sends the token request (one POST of an
\* authorization_code grant) if and only if the URL's state equals the stored
\* state, it has no non-empty error parameter and it has a non-empty code
\* parameter; with a matching state and no non-empty code it fails with
\* ApiException and sends nothing.
C3_SendsIffParametersCarried ==
    AccessTokenCalled =>
        LET url == last.arg.url
            accepted == /\ url["state"] = state
                        /\ ~Carries(url, "error")
                        /\ Carries(url, "code")
        IN  /\ accepted => Len(sent) = 1 /\ IsTokenRequest(sent[1], url)
            /\ ~accepted => sent = <<>>
            /\ (url["state"] = state /\ ~Carries(url, "code"))
                   => last.exc = "ApiException" /\ sent = <<>>

\* the token request of an accepted URL whose error parameter is empty
C3_Witness ==
    /\ AccessTokenCalled
    /\ last.arg.url["state"] = state
    /\ last.arg.url["error"] = ""
    /\ last.arg.url["code"] = "code-1"
    /\ Len(sent) = 1
    /\ IsTokenRequest(sent[1], last.arg.url)

\* the token endpoint answered with a JSON body and no error status
TokenRequestSucceeded ==
    /\ AccessTokenCalled
    /\ sent # <<>>
    /\ last.arg.net.kind = "response"
    /\ last.arg.net.json
    /\ last.arg.net.status < 400

\* C4: when the token request succeeds, get_access_token fails with
\* ApiException if the parsed response has no access_token key, and
\* otherwise returns the parsed response unchanged.
C4_AccessTokenRequired ==
    TokenRequestSucceeded =>
        IF "access_token" \in last.arg.net.body
        THEN last.exc = "none" /\ last.ret = last.arg.net.body
        ELSE last.exc = "ApiException"

\* a 200 answer without access_token
C4_Witness ==
    /\ TokenRequestSucceeded
    /\ last.arg.net.body = {"detail"}
    /\ last.exc = "ApiException"
    /\ last.msg = "Invalid response. The access_token is absent."

\* C5 as stated: the state is single-use: a second get_access_token call with
\* a redirect URL that already passed the state check, with no
\* get_authorize_url in between, is rejected by the state check and sends no
\* token request.
C5_StateSingleUse ==
    (AccessTokenCalled /\ last.arg.replay)
        => /\ last.exc = "ApiException"
           /\ last.msg = WrongStateMessage
           /\ sent = <<>>

\* C5 amended: the state is created by get_authorize_url and stays stored
\* until the next get_authorize_url; get_access_token does not invalidate
\* it, so a second get_access_token call with the same redirect URL passes
\* the state check again, and sends a token request again when the URL has a
\* non-empty code and no non-empty error.
C5_StateReusable ==
    (AccessTokenCalled /\ last.arg.replay)
        => /\ last.arg.url["state"] = state
           /\ last.msg # WrongStateMessage
           /\ (Carries(last.arg.url, "code") /\ ~Carries(last.arg.url, "error"))
                  => Len(sent) = 1 /\ IsTokenRequest(sent[1], last.arg.url)

\* the second call with the same URL sends a second token request
C5_Witness ==
    /\ AccessTokenCalled
    /\ last.arg.replay
    /\ Len(sent) = 1
    /\ last.exc = "none"

\* C19: on an instance on which get_authorize_url was never called,
\* get_access_token fails with ApiException for every redirect URL and sends
\* nothing; a token request is sent only after a get_authorize_url call.
C19_AuthorizeUrlFirst ==
    /\ (AccessTokenCalled /\ uuid_calls = 0)
          => /\ last.exc = "ApiException"
             /\ last.msg = WrongStateMessage
             /\ sent = <<>>
    /\ sent # <<>> => (uuid_calls > 0 /\ state # NoneVal)

\* a URL with a code and without state, before any get_authorize_url
C19_Witness ==
    /\ AccessTokenCalled
    /\ uuid_calls = 0
    /\ last.arg.url["state"] = Absent
    /\ Carries(last.arg.url, "code")
    /\ ~Carries(last.arg.url, "error")
    /\ last.exc = "ApiException"
    /\ sent = <<>>

\* the URL carries the state of a get_authorize_url call before the latest
StaleState(url) ==
    \E n \in 1..(uuid_calls - 1) : url["state"] = uuid4_hex(n)

\* C20: each get_authorize_url call stores a new state, which is the state
\* in the URL it returns; get_access_token rejects, without a token request,
\* a redirect URL carrying the state of an earlier call, and sends a token
\* request only for the stored state; neither operation changes the
\* credentials.
C20_FreshStateReplaces ==
    [][/\ UNCHANGED <<client_id, client_secret, scopes, redirect_uri, language>>
       /\ last'.op = "get_authorize_url"
             => /\ state' # state
                /\ state' = uuid4_hex(uuid_calls')
                /\ last'.ret.query.state = state'
       /\ last'.op = "get_access_token"
             => /\ state' = state
                /\ StaleState(last'.arg.url)
                      => last'.exc = "ApiException" /\ sent' = <<>>
                /\ sent' # <<>> => last'.arg.url["state"] = state]_vars

\* after two get_authorize_url calls, a URL with the first state and a code
C20_Witness ==
    /\ AccessTokenCalled
    /\ uuid_calls = 2
    /\ state = uuid4_hex(2)
    /\ last.arg.url["state"] = uuid4_hex(1)
    /\ Carries(last.arg.url, "code")
    /\ ~Carries(last.arg.url, "error")
    /\ last.exc = "ApiException"
    /\ sent = <<>>

----------------------------------------------------------------------------
(* Properties of the request builder *)

\* C6 as stated: set_method with a value other than GET and POST fails with
\* ApiException and leaves the stored method unchanged; with GET or POST it
\* stores the value and returns the builder.
C6_SetMethodApiException ==
    [][last'.op = "set_method" =>
          IF last'.arg.method \in {"GET", "POST"}
          THEN /\ last'.exc = "none"
               /\ _method' = last'.arg.method
               /\ last'.ret = "self"
          ELSE /\ last'.exc = "ApiException"
               /\ _method' = _method]_vars

\* C6 amended: set_method with a value other than GET and POST fails with
\* AttributeError (not ApiException) and leaves the stored method unchanged;
\* with GET or POST it stores the value and returns the builder.
C6_SetMethodAttributeError ==
    [][last'.op = "set_method" =>
          IF last'.arg.method \in {"GET", "POST"}
          THEN /\ last'.exc = "none"
               /\ _method' = last'.arg.method
               /\ last'.ret = "self"
          ELSE /\ last'.exc = "AttributeError"
               /\ _method' = _method]_vars

\* DELETE refused by a builder whose method was set to POST
C6_Witness ==
    /\ last.op = "set_method"
    /\ last.arg.method = "DELETE"
    /\ last.exc = "AttributeError"
    /\ _method = "POST"
    /\ init_args.method = NoneVal

\* C7 as stated: set_language with a value other than ru, en, de, pl fails
\* with ApiException and leaves the stored language unchanged; with a
\* supported value it stores it.
C7_SetLanguageApiException ==
    [][last'.op = "set_language" =>
          IF last'.arg.language \in {"ru", "en", "de", "pl"}
          THEN last'.exc = "none" /\ _language' = last'.arg.language
          ELSE last'.exc = "ApiException" /\ _language' = _language]_vars

\* C7 amended: set_language with a value other than ru, en, de, pl fails with
\* AttributeError (not ApiException) and leaves the stored language
\* unchanged; with a supported value it stores it.
C7_SetLanguageAttributeError ==
    [][last'.op = "set_language" =>
          IF last'.arg.language \in {"ru", "en", "de", "pl"}
          THEN last'.exc = "none" /\ _language' = last'.arg.language
          ELSE last'.exc = "AttributeError" /\ _language' = _language]_vars

\* fr refused by a builder whose language is de
C7_Witness ==
    /\ last.op = "set_language"
    /\ last.arg.language = "fr"
    /\ last.exc = "AttributeError"
    /\ _language = "de"

\* C8: in every state reachable from any construction, the stored language
\* is unset or supported, and whenever a request is issued the stored method
\* is GET or POST and the URL is set.
C8_TransportStateInvariant ==
    /\ _language \in {NoneVal, "ru", "en", "de", "pl"}
    /\ sent # <<>> =>
          /\ _method \in {"GET", "POST"}
          /\ sent[1].method \in {"GET", "POST"}
          /\ ~Falsy(_url)
          /\ sent[1].url = _url

\* C9 as stated: __call__ on a builder whose URL is unset, with no url among
\* the options, fails with ApiException and issues no request.
C9_MissingUrlApiException ==
    [][(/\ last'.op = "__call__"
        /\ Falsy(_url)
        /\ "url" \notin DOMAIN last'.arg.kwargs)
          => last'.exc = "ApiException" /\ sent' = <<>>]_vars

\* C9 amended: __call__ on a builder whose URL is unset, with no url among
\* the options, fails with AttributeError (not ApiException) and issues no
\* request.
C9_MissingUrlAttributeError ==
    [][(/\ last'.op = "__call__"
        /\ Falsy(_url)
        /\ "url" \notin DOMAIN last'.arg.kwargs)
          => last'.exc = "AttributeError" /\ sent' = <<>>]_vars

\* the call of a builder without URL, with no option at all
C9_Witness ==
    /\ last.op = "__call__"
    /\ last.arg.kwargs = <<>>
    /\ _url = NoneVal
    /\ last.exc = "AttributeError"
    /\ last.msg = "Absent url parameter. Use set_url method"
    /\ sent = <<>>

\* the answer is a JSON body without an error status
Answered(net) == net.kind = "response" /\ net.json /\ net.status < 400

\* one GET of the announcements URL with limit and offset as query
\* parameters and the headers of the construction
IsPaginatedGet(requests) ==
    /\ Len(requests) = 1
    /\ requests[1].method = "GET"
    /\ requests[1].url = prepare_api_url(Announcements_URL, NoneVal)
    /\ requests[1].kwargs.params = Pagination
    /\ requests[1].kwargs.headers =
          build_headers(init_args.access_token, init_args.user_agent)

\* C10: with the method set to GET, calling the builder with a url and the
\* pagination keys limit=1, offset=2, as Announcements.get does, issues
\* exactly one GET request to that URL with those keys as query parameters
\* and the construction-time headers, and returns the parsed JSON response.
C10_PaginatedGet ==
    /\ (/\ last.op = "__call__"
        /\ last.arg.kwargs = [url |-> Announcements_URL] @@ Pagination
        /\ _method = "GET"
        /\ _language = NoneVal)
          => /\ IsPaginatedGet(sent)
             /\ Answered(last.arg.net)
                   => last.exc = "none" /\ last.ret = last.arg.net.body
    /\ (/\ last.op = "Announcements.get"
        /\ last.arg.kwargs = Pagination
        /\ _language = NoneVal)
          => /\ IsPaginatedGet(sent)
             /\ Answered(last.arg.net)
                   => last.exc = "none" /\ last.ret = last.arg.net.body

\* Authorization: Bearer token, Connection: Keep-Alive, and User-Agent only
\* if one was supplied
ConstructionHeaders ==
    [k \in {"Authorization", "Connection"}
            \cup (IF init_args.user_agent \in {NoneVal, ""} THEN {}
                  ELSE {"User-Agent"}) |->
        CASE k = "Authorization" -> "Bearer " \o init_args.access_token
          [] k = "Connection" -> "Keep-Alive"
          [] OTHER -> init_args.user_agent]

\* C15: after any sequence of calls the builder's headers are those derived
\* from the arguments of the construction, and every request the builder
\* issues carries exactly these headers.
C15_HeadersFrozen ==
    /\ _headers = ConstructionHeaders
    /\ \A i \in 1..Len(sent) : sent[i].kwargs.headers = ConstructionHeaders

\* a request issued, with a user agent, after the language, the data and the
\* method were set
C15_Witness ==
    /\ last.op = "__call__"
    /\ Len(sent) = 1
    /\ init_args.user_agent = "agent/1"
    /\ init_args.method = NoneVal
    /\ _language = "de"
    /\ _data # NoneDict
    /\ _method = "POST"
    /\ sent[1].kwargs.headers["User-Agent"] = "agent/1"
    /\ sent[1].kwargs.headers["Authorization"] = "Bearer token-1"
    /\ DOMAIN sent[1].kwargs.headers = {"Authorization", "Connection", "User-Agent"}

\* C17: whenever the builder issues a request, the language in the requested
\* URL is the stored language if one is set and the default language
\* otherwise.
C17_UrlLanguageIsStoredLanguage ==
    \A i \in 1..Len(sent) :
        sent[i].url = prepare_api_url(Announcements_URL, _language)

FailedBuilderCall ==
    /\ last'.op \in {"set_url", "__call__"}
    /\ last'.exc = "AttributeError"

AbsentUrlMessage == "Absent url parameter. Use set_url method"

\* C18 as stated: set_url with an unsupported language, and invoke that fails
\* for an unsupported language option or for a missing URL, issue no request
\* and leave url, language, method, data and headers as they were.
C18_FailedCallChangesNothing ==
    [][FailedBuilderCall =>
          /\ sent' = <<>>
          /\ UNCHANGED transport_vars]_vars

\* C18 amended: these failed calls issue no request and leave method, data
\* and headers as they were; url and language are unchanged too, except that
\* an invoke failing for a missing URL has already stored a supported
\* language option, and has stored the empty URL of an empty url option.
C18_FailedCallKeepsOptions ==
    [][FailedBuilderCall =>
          /\ sent' = <<>>
          /\ UNCHANGED <<_headers, _method, _data>>
          /\ IF last'.op = "__call__" /\ last'.msg = AbsentUrlMessage
             THEN /\ _language' = IF "language" \in DOMAIN last'.arg.kwargs
                                  THEN last'.arg.kwargs.language
                                  ELSE _language
                  /\ _url' = IF "url" \in DOMAIN last'.arg.kwargs
                             THEN "" ELSE _url
             ELSE UNCHANGED <<_url, _language>>]_vars

\* invoke with the option language=de on a builder without URL
C18_Witness ==
    /\ last.op = "__call__"
    /\ last.exc = "AttributeError"
    /\ last.msg = AbsentUrlMessage
    /\ "language" \in DOMAIN last.arg.kwargs
    /\ "url" \notin DOMAIN last.arg.kwargs
    /\ _language = last.arg.kwargs.language
    /\ _url = NoneVal
    /\ sent = <<>>

----------------------------------------------------------------------------
(* Properties of the executor and of the grant functions *)

ExecutorReturned ==
    last.op \in {"api_request", "api_post_request", "api_get_request"}

\* the server answered, with a body that parses as JSON
JsonAnswer(net) == net.kind = "response" /\ net.json

\* the server answered, with a body that does not parse as JSON
OtherAnswer(net) == net.kind = "response" /\ ~net.json

CarriesStatusAndBody(net) ==
    /\ last.exc = "HttpException"
    /\ last.ret.status_code = net.status
    /\ last.ret.content = net.body

\* C11 as stated: a response with a non-2xx status and a JSON body surfaces
\* as HttpException carrying that status code and that parsed body.
C11_Non2xxIsHttpException ==
    (/\ ExecutorReturned
     /\ JsonAnswer(last.arg.net)
     /\ ~(last.arg.net.status >= 200 /\ last.arg.net.status < 300))
        => CarriesStatusAndBody(last.arg.net)

\* C11 amended: a response with a 4xx or 5xx status and a JSON body surfaces
\* as HttpException carrying that status code and that parsed body; a JSON
\* response with any other status, 3xx included, is returned as parsed.
C11_ErrorStatusIsHttpException ==
    (ExecutorReturned /\ JsonAnswer(last.arg.net))
        => IF last.arg.net.status >= 400 /\ last.arg.net.status < 600
           THEN CarriesStatusAndBody(last.arg.net)
           ELSE last.exc = "none" /\ last.ret.content = last.arg.net.body

\* 404 with the body {"detail": ...}
C11_Witness ==
    /\ ExecutorReturned
    /\ last.arg.net.status = 404
    /\ last.arg.net.json
    /\ last.arg.net.body = {"detail"}
    /\ last.exc = "HttpException"
    /\ last.ret = [status_code |-> 404, content |-> {"detail"}]

\* C12: a response whose body does not parse as JSON surfaces as
\* JsonException, never as HttpException, whatever its status.
C12_BadJsonIsJsonException ==
    ExecutorReturned =>
        (OtherAnswer(last.arg.net) => last.exc = "JsonException")

\* a 404 whose body is not JSON
C12_Witness ==
    /\ ExecutorReturned
    /\ last.arg.net.status = 404
    /\ OtherAnswer(last.arg.net)
    /\ last.exc = "JsonException"

\* C13 as stated: every failed call raises exactly one of HttpException,
\* ConnectionException and JsonException, and whenever the server returned a
\* non-2xx status the failure is HttpException carrying the status code and
\* the parsed body, whatever the body contains.
C13_FailedStatusIsHttpException ==
    (ExecutorReturned /\ last.exc # "none") =>
        /\ last.exc \in {"HttpException", "ConnectionException", "JsonException"}
        /\ (/\ last.arg.net.kind = "response"
            /\ ~(last.arg.net.status >= 200 /\ last.arg.net.status < 300))
              => CarriesStatusAndBody(last.arg.net)

\* the kind of failure the answer `net` leads to
FailureOf(net) ==
    IF net.kind = "refused" THEN "ConnectionException"
    ELSE IF ~net.json THEN "JsonException"
    ELSE IF net.status >= 400 /\ net.status < 600 THEN "HttpException"
    ELSE "none"

\* C13 amended: every failed call raises exactly one of HttpException,
\* ConnectionException and JsonException: ConnectionException when no
\* response was obtained, JsonException when the body does not parse as
\* JSON, whatever the status, and HttpException carrying the status code and
\* the parsed (possibly empty) body when the body parses and the status is
\* 4xx or 5xx; the body is parsed before the status is checked.
C13_FailureClassification ==
    ExecutorReturned =>
        /\ last.exc = FailureOf(last.arg.net)
        /\ last.exc = "HttpException" => CarriesStatusAndBody(last.arg.net)

\* a 500 with an empty JSON body
C13_Witness ==
    /\ ExecutorReturned
    /\ last.arg.net.status = 500
    /\ last.arg.net.json
    /\ last.exc = "HttpException"
    /\ last.ret = [status_code |-> 500, content |-> {}]

GrantCalledOp ==
    last.op \in {"oauth_password_authorization", "oauth_client_authorization"}

RequiredKeys(op) ==
    IF op = "oauth_password_authorization"
    THEN {"client_id", "client_secret", "username", "password", "scopes"}
    ELSE {"client_id", "client_secret", "scopes"}

MissingKeys == RequiredKeys(last.op) \ DOMAIN last.arg.data

\* C16: a grant function whose input lacks a required key fails with a
\* KeyError naming a missing key, and no request is issued.
C16_MissingKeyBeforeRequest ==
    GrantCalledOp =>
        IF MissingKeys # {}
        THEN last.exc = "KeyError" /\ last.msg \in MissingKeys /\ sent = <<>>
        ELSE Len(sent) = 1

\* the password grant without scopes
C16_Witness ==
    /\ last.op = "oauth_password_authorization"
    /\ DOMAIN last.arg.data = GrantKeys \ {"scopes"}
    /\ last.exc = "KeyError"
    /\ last.msg = "scopes"
    /\ sent = <<>>

----------------------------------------------------------------------------
(* Properties of every call *)

\* C14: every call issues at most one HTTP request, and when that request
\* fails (no response, a body that is not JSON, or a 4xx or 5xx status) the
\* call raises the matching exception with that one request issued.
C14_NoRetries ==
    /\ Len(sent) <= 1
    /\ (sent # <<>> /\ FailureOf(last.arg.net) # "none")
          => last.exc = FailureOf(last.arg.net)

\* the builder's invoke, the connection refused
C14_Witness ==
    /\ last.op = "__call__"
    /\ Len(sent) = 1
    /\ last.arg.net.kind = "refused"
    /\ last.exc = "ConnectionException"

====
